---- MODULE Spec2Model ----
(***************************************************************************)
(* Model of src/bot.py: the webhook handler mainHander, the bind table it  *)
(* reads and writes through the sqlite helper functions, and the calls it  *)
(* makes to the whitelist controller (addWhitelist / removeWhitelist).     *)
(*                                                                         *)
(* A raw message is modelled as the token sequence raw_message.split(" "). *)
(* The bind table is a function from the qq keys present (TEXT, as sqlite  *)
(* stores them) to rows [mc, is_admin, ban].  One step of the model is one *)
(* complete run of mainHander on one inbound event.                        *)
(*                                                                         *)
(* Taken as given: message_type is "group" or "private", so a run that     *)
(* sets a reply posts it; the post to the gateway itself does not raise;   *)
(* sqlite raises no error other than the one for an unsupported parameter  *)
(* type; chat ids are positive integers.                                   *)
(***************************************************************************)
EXTENDS Integers, Sequences, FiniteSets, TLC

VARIABLES
    bind,       \* the bind table: qq key (text) -> [mc, is_admin, ban]
    event,      \* the inbound event handled last: [sender, raw]
    reply,      \* the message posted to the gateway by the last run, or NoReply
    ret,        \* how the last run ended: "success" or "exception"
    calls,      \* the whitelist-controller calls made by the last run
    banIssued   \* history: usernames for which /admin ban reached ban_bind

vars == <<bind, event, reply, ret, calls, banIssued>>

----------------------------------------------------------------------------
(* Bounds of the model *)

NumUsers == 2       \* non-admin chat ids are 1..NumUsers
MaxExtra == 1       \* most surplus tokens appended to a complete command

----------------------------------------------------------------------------
(* Values *)

None == "<None>"                            \* Python None (an omitted argument)
NULL == "<NULL>"                            \* SQL NULL in the mc column
FnObj == "<function query_username>"        \* the function object query_username
NoReply == "<no reply>"
NoEvent == [sender |-> 0, raw |-> <<>>]

Users == 1..NumUsers
admin == {NumUsers + 1}
Senders == Users \cup admin

\* str(qid) / sqlite's TEXT affinity: the decimal text of a chat id
Decimal == <<"1", "2", "3", "4", "5", "6", "7", "8", "9">>
QQText(qid) == Decimal[qid]

NonAsciiName == "St(U+00E9)ve"
ExtraTok == "extra"
BindTok == {"Steve", "Alex", "", NonAsciiName}
QQTok == {QQText(1), "abc"}
AdminNames == {"Steve", NonAsciiName}
AdminSubs == {"bind", "unbind", "ban", "kick"}

isascii(t) == t # NonAsciiName
isdigit(t) == t \in {Decimal[i] : i \in 1..9}
Truthy(x) == x # None /\ x # ""

\* the surplus tokens a message may carry after a complete command
Extras == {[i \in 1..k |-> ExtraTok] : k \in 0..MaxExtra}

\* the raw messages of the model, each as raw_message.split(" ")
Messages ==
    {<<"/status">>, <<"/help">>, <<"/unbind">>, <<"hello">>, <<"/admin">>}
    \cup {<<"/bind">>}
    \cup {<<"/bind", n>> \o e : n \in BindTok, e \in Extras}
    \cup {<<"/admin", sub>> : sub \in AdminSubs}
    \cup {<<"/admin", "bind", q>> : q \in QQTok}
    \cup {<<"/admin", "bind", q, n>> \o e :
                q \in QQTok, n \in AdminNames, e \in Extras}
    \cup {<<"/admin", sub, n>> \o e :
                sub \in {"unbind", "ban"}, n \in AdminNames, e \in Extras}

----------------------------------------------------------------------------
(* The binding store *)

Ret(v) == [raised |-> FALSE, value |-> v]
Raise == [raised |-> TRUE, value |-> FALSE]

init_database(admin_list) ==
    [k \in {QQText(q) : q \in admin_list} |->
        [mc |-> NULL, is_admin |-> TRUE, ban |-> FALSE]]

Upsert(b, qq, mc) ==
    [k \in DOMAIN b \cup {qq} |->
        IF k = qq
        THEN IF qq \in DOMAIN b
             THEN [b[qq] EXCEPT !.mc = mc]
             ELSE [mc |-> mc, is_admin |-> FALSE, ban |-> FALSE]
        ELSE b[k]]

\* add_bind that commits nothing
add_bind_lost(b, qq, mc) == b

add_bind(b, qq, mc) == Upsert(b, qq, mc)

force_edit_database(b, qq, mc) == Upsert(b, qq, mc)

RowsByQQ(b, qq) == {k \in DOMAIN b : k = qq}
RowsByMC(b, mc) == {k \in DOMAIN b : b[k].mc = mc}
Delete(b, ks) == [k \in DOMAIN b \ ks |-> b[k]]

\* returns [raised, value, db]; an unsupported parameter type (the function
\* object) is an sqlite3.Error, caught inside: nothing deleted, value FALSE
remove_bind(b, qq, mc) ==
    IF ~Truthy(qq) /\ ~Truthy(mc)
    THEN [raised |-> TRUE, value |-> FALSE, db |-> b]
    ELSE IF Truthy(qq)
    THEN [raised |-> FALSE, value |-> RowsByQQ(b, qq) # {},
          db |-> Delete(b, RowsByQQ(b, qq))]
    ELSE IF mc = FnObj
    THEN [raised |-> FALSE, value |-> FALSE, db |-> b]
    ELSE [raised |-> FALSE, value |-> RowsByMC(b, mc) # {},
          db |-> Delete(b, RowsByMC(b, mc))]

ban_bind(b, qq, mc) ==
    [k \in DOMAIN b |->
        IF (Truthy(qq) /\ k = qq) \/ (Truthy(mc) /\ b[k].mc = mc)
        THEN [b[k] EXCEPT !.ban = TRUE]
        ELSE b[k]]

\* query_count that ignores its qq argument
query_count_by_mc_only(b, qq, mc) ==
    IF Truthy(mc) THEN Ret(Cardinality(RowsByMC(b, mc))) ELSE Ret(0)

query_count(b, qq, mc) ==
    IF Truthy(qq) THEN Ret(Cardinality(RowsByQQ(b, qq)))
    ELSE IF Truthy(mc) THEN Ret(Cardinality(RowsByMC(b, mc)))
    ELSE [raised |-> TRUE, value |-> 0]

query_ban(b, qq, mc) ==
    IF ~Truthy(qq) /\ ~Truthy(mc) THEN Raise
    ELSE Ret(\E k \in DOMAIN b :
                /\ (Truthy(qq) /\ k = qq) \/ (Truthy(mc) /\ b[k].mc = mc)
                /\ b[k].ban)

----------------------------------------------------------------------------
(* The whitelist controller.  ok says whether the success marker is in the *)
(* transcript of the external client; when it is not, the call raises      *)
(* ServerConnectionError.                                                  *)

addWhitelist(username, ok) ==
    [raised |-> ~ok, call |-> [op |-> "add", arg |-> username, ok |-> ok]]

removeWhitelist(username, ok) ==
    [raised |-> ~ok, call |-> [op |-> "remove", arg |-> username, ok |-> ok]]

----------------------------------------------------------------------------
(* Outcomes of one run of mainHander *)

\* the run reaches the dispatch step with msg and returns "success"
Sent(b, msg, cs) == [bind |-> b, reply |-> msg, ret |-> "success", calls |-> cs]
\* an exception leaves the handler: nothing is dispatched
Aborted(b, cs) == [bind |-> b, reply |-> NoReply, ret |-> "exception", calls |-> cs]
\* enable = False: nothing is dispatched, the run returns "success"
Silent(b) == [bind |-> b, reply |-> NoReply, ret |-> "success", calls |-> <<>>]

----------------------------------------------------------------------------
(* Command handlers *)

statusHandler(probe_ok) == IF probe_ok THEN "Status" ELSE "StatusError"

helpHandler(qid) == "Help"

\* returns [db, msg, calls].  A ServerConnectionError from addWhitelist is
\* caught, add_bind is skipped, and the same message is returned either way.
bindHandler(b, msg, qid, ok) ==
    IF Len(msg) # 2
    THEN [db |-> b, msg |-> "BindUsage", calls |-> <<>>]
    ELSE IF ~isascii(msg[2])
    THEN [db |-> b, msg |-> "InvalidName", calls |-> <<>>]
    ELSE LET w == addWhitelist(msg[2], ok)
         IN [db |-> IF w.raised THEN b ELSE add_bind(b, QQText(qid), msg[2]),
             msg |-> "BindOk",
             calls |-> <<w.call>>]

\* an admin check that lets every sender through
NotInAdmin_open(qid) == FALSE

\* qid not in admin
NotInAdmin(qid) == qid \notin admin

\* commands[i] of the Python list exists (0-based index i)
HasIndex(commands, i) == Len(commands) > i

BindBranch(b, qid, msg, ok) ==
    IF Len(msg) # 2
    THEN Sent(b, "Raw", <<>>)
    ELSE IF query_ban(b, QQText(qid), None).value
    THEN Sent(b, "QQBanned", <<>>)
    ELSE IF query_ban(b, None, msg[2]).raised
    THEN Aborted(b, <<>>)
    ELSE IF query_ban(b, None, msg[2]).value
    THEN Sent(b, "NameBanned", <<>>)
    ELSE IF query_count(b, QQText(qid), None).value # 0
    THEN Sent(b, "AlreadyBound", <<>>)
    ELSE IF query_count(b, None, msg[2]).raised
    THEN Aborted(b, <<>>)
    ELSE IF query_count(b, None, msg[2]).value # 0
    THEN Sent(b, "NameTaken", <<>>)
    ELSE LET h == bindHandler(b, msg, qid, ok)
         IN Sent(h.db, h.msg, h.calls)

\* username = query_username: the function object, not a looked-up name
UnbindBranch(b, qid, ok) ==
    LET r == remove_bind(b, QQText(qid), None)
    IN IF r.value
       THEN LET username == FnObj
                w == removeWhitelist(username, ok)
                r2 == remove_bind(r.db, None, username)
            IN IF w.raised
               THEN Aborted(r.db, <<w.call>>)
               ELSE Sent(r2.db, "UnbindOk", <<w.call>>)
       ELSE Sent(r.db, "UnbindFailed", <<>>)

AdminBindBranch(b, commands, ok) ==
    IF Len(commands) # 4 \/ ~isdigit(commands[3]) \/ ~isascii(commands[4])
    THEN Sent(b, "AdminBindUsage", <<>>)
    ELSE LET w == addWhitelist(commands[4], ok)
         IN IF w.raised
            THEN Aborted(b, <<w.call>>)
            ELSE Sent(force_edit_database(b, commands[3], commands[4]),
                      "AdminBindOk", <<w.call>>)

\* the success message formats commands[3] (0-based), which a three-token
\* command does not have: IndexError
AdminUnbindBranch(b, commands, ok) ==
    IF Len(commands) # 3 \/ ~isascii(commands[3])
    THEN Sent(b, "AdminUnbindUsage", <<>>)
    ELSE LET w == removeWhitelist(commands[3], ok)
             r == remove_bind(b, None, commands[3])
         IN IF w.raised THEN Aborted(b, <<w.call>>)
            ELSE IF r.raised THEN Aborted(b, <<w.call>>)
            ELSE IF ~HasIndex(commands, 3) THEN Aborted(r.db, <<w.call>>)
            ELSE Sent(r.db, "AdminUnbindOk", <<w.call>>)

AdminBanBranch(b, commands, ok) ==
    IF Len(commands) # 3 \/ ~isascii(commands[3])
    THEN Sent(b, "AdminBanUsage", <<>>)
    ELSE LET w == removeWhitelist(commands[3], ok)
             db == ban_bind(b, None, commands[3])
         IN IF w.raised THEN Aborted(b, <<w.call>>)
            ELSE IF ~HasIndex(commands, 3) THEN Aborted(db, <<w.call>>)
            ELSE Sent(db, "AdminBanOk", <<w.call>>)

AdminBranch(b, qid, commands, ok) ==
    IF NotInAdmin(qid) THEN Sent(b, "NotAdmin", <<>>)
    ELSE IF Len(commands) = 1 THEN Sent(b, "AdminHelp", <<>>)
    ELSE IF commands[2] = "bind" THEN AdminBindBranch(b, commands, ok)
    ELSE IF commands[2] = "unbind" THEN AdminUnbindBranch(b, commands, ok)
    ELSE IF commands[2] = "ban" THEN AdminBanBranch(b, commands, ok)
    ELSE Sent(b, "Raw", <<>>)

\* the branch of mainHander's if/elif chain that a raw message takes
Route(raw) ==
    IF raw = <<"/status">> THEN "status"
    ELSE IF raw = <<"/help">> THEN "help"
    ELSE IF raw[1] = "/bind" THEN "bind"
    ELSE IF raw = <<"/unbind">> THEN "unbind"
    ELSE IF raw[1] = "/admin" THEN "admin"
    ELSE "other"

mainHander(b, qid, raw, ok) ==
    CASE Route(raw) = "status" -> Sent(b, statusHandler(ok), <<>>)
      [] Route(raw) = "help"   -> Sent(b, helpHandler(qid), <<>>)
      [] Route(raw) = "bind"   -> BindBranch(b, qid, raw, ok)
      [] Route(raw) = "unbind" -> UnbindBranch(b, qid, ok)
      [] Route(raw) = "admin"  -> AdminBranch(b, qid, raw, ok)
      [] OTHER                 -> Silent(b)

\* /admin ban <name> got as far as ban_bind(mc=name)
BanReached(qid, raw, ok) ==
    /\ Route(raw) = "admin"
    /\ ~NotInAdmin(qid)
    /\ Len(raw) = 3
    /\ raw[2] = "ban"
    /\ isascii(raw[3])
    /\ ok

----------------------------------------------------------------------------
(* The state machine *)

Init ==
    /\ bind = init_database(admin)
    /\ event = NoEvent
    /\ reply = NoReply
    /\ ret = "success"
    /\ calls = <<>>
    /\ banIssued = {}

\* one run of mainHander on the event (qid, raw); ok is the outcome of the
\* external call the run makes, if it makes one
Handle(qid, raw, ok) ==
    \E out \in {mainHander(bind, qid, raw, ok)} :
       /\ bind' = out.bind
       /\ event' = [sender |-> qid, raw |-> raw]
       /\ reply' = out.reply
       /\ ret' = out.ret
       /\ calls' = out.calls
       /\ banIssued' = IF BanReached(qid, raw, ok)
                       THEN banIssued \cup {raw[3]}
                       ELSE banIssued

HandleStatus ==
    \E qid \in Senders, raw \in Messages, ok \in BOOLEAN :
        Route(raw) = "status" /\ Handle(qid, raw, ok)

HandleHelp ==
    \E qid \in Senders, raw \in Messages :
        Route(raw) = "help" /\ Handle(qid, raw, TRUE)

HandleBind ==
    \E qid \in Senders, raw \in Messages, ok \in BOOLEAN :
        Route(raw) = "bind" /\ Handle(qid, raw, ok)

HandleUnbind ==
    \E qid \in Senders, raw \in Messages, ok \in BOOLEAN :
        Route(raw) = "unbind" /\ Handle(qid, raw, ok)

HandleAdmin ==
    \E qid \in Senders, raw \in Messages, ok \in BOOLEAN :
        Route(raw) = "admin" /\ Handle(qid, raw, ok)

HandleOther ==
    \E qid \in Senders, raw \in Messages :
        Route(raw) = "other" /\ Handle(qid, raw, TRUE)

Next ==
    \/ HandleStatus
    \/ HandleHelp
    \/ HandleBind
    \/ HandleUnbind
    \/ HandleAdmin
    \/ HandleOther

Spec == Init /\ [][Next]_vars

----------------------------------------------------------------------------
(* Vocabulary of the properties *)

IsBind(e) == e # NoEvent /\ Route(e.raw) = "bind"
IsUnbind(e) == e # NoEvent /\ Route(e.raw) = "unbind"
IsAdmin(e) == e # NoEvent /\ Route(e.raw) = "admin"

\* /bind <name>: exactly two tokens
BindOf(e) == IsBind(e) /\ Len(e.raw) = 2

HasRow(b, qid) == QQText(qid) \in DOMAIN b
BoundTo(b, qid, n) == HasRow(b, qid) /\ b[QQText(qid)].mc = n
NameBanned(b, n) == \E k \in DOMAIN b : b[k].mc = n /\ b[k].ban

Invoked(cs, op, arg) == \E i \in DOMAIN cs : cs[i].op = op /\ cs[i].arg = arg
SomeCallFailed(cs) == \E i \in DOMAIN cs : ~cs[i].ok

SuccessKinds == {"BindOk", "UnbindOk", "AdminBindOk", "AdminUnbindOk", "AdminBanOk"}
UsageKinds == {"BindUsage", "InvalidName", "AdminHelp",
               "AdminBindUsage", "AdminUnbindUsage", "AdminBanUsage"}
PolicyKinds == {"QQBanned", "NameBanned", "AlreadyBound", "NameTaken"}

----------------------------------------------------------------------------
(* C1 *)

----------------------------------------------------------------------------
(* C2 *)

\* C2 as stated: once /admin ban <name> has been carried out for a username,
\* no later /bind of that username creates a row binding it.
C2_BanNeverLost ==
    [][(BindOf(event') /\ event'.raw[2] \in banIssued)
       => RowsByMC(bind', event'.raw[2]) \subseteq RowsByMC(bind, event'.raw[2])]_vars

----------------------------------------------------------------------------
(* C3 *)

\* C3 as stated: no two rows of the bind table carry the same non-null mc.
C3_UniqueUsername ==
    \A k1, k2 \in DOMAIN bind :
        (k1 # k2 /\ bind[k1].mc # NULL) => bind[k1].mc # bind[k2].mc

----------------------------------------------------------------------------
(* C4 *)

\* C4 as stated: /unbind from a sender bound to u invokes removeWhitelist
\* with u, and afterwards no row is left for the sender or with mc = u.
C4_UnbindRemovesBoundName ==
    [][(/\ IsUnbind(event')
        /\ HasRow(bind, event'.sender)
        /\ bind[QQText(event'.sender)].mc # NULL)
       => (/\ Invoked(calls', "remove", bind[QQText(event'.sender)].mc)
           /\ ~HasRow(bind', event'.sender)
           /\ RowsByMC(bind', bind[QQText(event'.sender)].mc) = {})]_vars

----------------------------------------------------------------------------
(* C5 *)

\* C5 as stated: when a whitelist call of the run failed, the reply sent to
\* the gateway is a connection-error message, never a success message.
C5_FailureReported ==
    SomeCallFailed(calls) => (reply = "ConnectionError" /\ reply \notin SuccessKinds)

----------------------------------------------------------------------------
(* C6 *)

\* C6: a /bind <name2> from a sender who already has a row is rejected: no
\* row of the bind table changes, addWhitelist is not invoked, and the reply
\* is not the bind success message.
C6_RebindRejected ==
    [][(BindOf(event') /\ HasRow(bind, event'.sender))
       => (/\ bind' = bind
           /\ calls' = <<>>
           /\ reply' \notin SuccessKinds)]_vars

\* a sender bound to one name has just been refused a /bind of another name
C6_Witness ==
    /\ BindOf(event)
    /\ reply = "AlreadyBound"
    /\ HasRow(bind, event.sender)
    /\ bind[QQText(event.sender)].mc \notin {NULL, event.raw[2]}
    /\ isascii(event.raw[2])
    /\ Truthy(event.raw[2])
    /\ calls = <<>>

----------------------------------------------------------------------------
(* C7 *)

\* C7 as stated: after /unbind from a sender bound to a non-banned username
\* n, an immediately following /bind n from that sender (its whitelist call
\* succeeding) passes every precondition check and binds the sender to n.
C7_UnbindThenBind ==
    [][(/\ IsUnbind(event')
        /\ HasRow(bind, event'.sender)
        /\ bind[QQText(event'.sender)].mc # NULL
        /\ ~NameBanned(bind, bind[QQText(event'.sender)].mc))
       => BoundTo(BindBranch(bind', event'.sender,
                             <<"/bind", bind[QQText(event'.sender)].mc>>,
                             TRUE).bind,
                  event'.sender, bind[QQText(event'.sender)].mc)]_vars

----------------------------------------------------------------------------
(* C8 *)

\* C8: an /admin command from a sender outside the admin list is rejected:
\* the bind table is unchanged and no whitelist call is made.
C8_NonAdminRejected ==
    [][(IsAdmin(event') /\ event'.sender \notin admin)
       => (/\ bind' = bind
           /\ calls' = <<>>
           /\ reply' = "NotAdmin")]_vars

\* a non-admin has just been refused a well-formed /admin bind
C8_Witness ==
    /\ IsAdmin(event)
    /\ event.sender \notin admin
    /\ Len(event.raw) = 4
    /\ event.raw[2] = "bind"
    /\ isdigit(event.raw[3])
    /\ isascii(event.raw[4])
    /\ reply = "NotAdmin"
    /\ bind # init_database(admin)

----------------------------------------------------------------------------
(* C9 *)

\* a /bind or (from an admin) /admin command that fails syntactic validation
SyntaxInvalid(e) ==
    \/ IsBind(e) /\ Len(e.raw) # 2
    \/ BindOf(e) /\ ~isascii(e.raw[2])
    \/ /\ IsAdmin(e)
       /\ e.sender \in admin
       /\ Len(e.raw) >= 2
       /\ \/ e.raw[2] \notin {"bind", "unbind", "ban"}
          \/ /\ e.raw[2] = "bind"
             /\ (Len(e.raw) # 4 \/ ~isdigit(e.raw[3]) \/ ~isascii(e.raw[4]))
          \/ /\ e.raw[2] \in {"unbind", "ban"}
             /\ (Len(e.raw) # 3 \/ ~isascii(e.raw[3]))

\* C9 as stated: a command that fails syntactic validation is answered with a
\* usage or correction message (a policy refusal is let pass too), never with
\* the raw input or a success message, and changes neither store nor whitelist.
C9_SyntaxErrorGetsUsage ==
    [][SyntaxInvalid(event')
       => (/\ reply' \in UsageKinds \cup PolicyKinds
           /\ bind' = bind
           /\ calls' = <<>>)]_vars

----------------------------------------------------------------------------
(* C10 *)

\* C10 as stated: every run of the handler on a recognised command with
\* non-empty arguments, whose external calls all succeed, ends by returning
\* "success"; no such run is aborted by an unhandled exception.
C10_AlwaysReturnsSuccess ==
    (/\ event # NoEvent
     /\ \A i \in DOMAIN event.raw : Truthy(event.raw[i])
     /\ ~SomeCallFailed(calls))
    => ret = "success"

====
